---- MODULE Spec2Model ----
(***************************************************************************)
(* A model of rathole's wire codec (src/src/protocol.rs) and of its        *)
(* helpers (src/src/helper.rs): the bincode encoding of the fixed-shape    *)
(* messages and of the UDP frame, the fixed-length readers, the retry loop *)
(* raced against the shutdown broadcast, and the PROXY protocol v2 header. *)
(*                                                                         *)
(* A byte is a number in 0..255.  A buffer (Vec<u8>, [u8; N]) is a         *)
(* sequence of bytes.  The data channel's stream and a datagram's payload  *)
(* (Bytes), which run to 65536 bytes and more, are kept run-length         *)
(* encoded: a sequence of runs [b, n], n > 0 copies of the byte b, no two  *)
(* neighbouring runs of the same byte, so that two such values are equal   *)
(* exactly when their bytes are.                                           *)
(***************************************************************************)
EXTENDS Integers, Sequences, FiniteSets, TLC

VARIABLES
    dwire,      \* data channel: bytes written and not yet read (run-length)
    dclosed,    \* data channel: the writing side has shut the stream down
    dput,       \* data channel: how many bytes were ever put on the stream
    dwriting,   \* data channel: the UdpTraffic::write call suspended at an await
    dtorn,      \* data channel: how many write calls ended inside their frame
    dsent,      \* data channel: the UdpTraffic values whose write returned Ok
    dframes,    \* data channel: what each of those calls put on the stream
    drcvd,      \* data channel: what each successful UdpTraffic::read returned
    dreader,    \* data channel: "reading", or "failed" once a read returned Err
    dfail,      \* data channel: the Err that read returned, and the bytes it took
    cwire,      \* control channel: bytes written and not yet read
    cclosed,    \* control channel: the writing side has shut the stream down
    cwritten,   \* control channel: the calls of write_and_flush and what each put, in order
    cread,      \* control channel: what each finished read_* call did, in order
    creader,    \* control channel: "reading", or "failed" once a read returned Err
    rphase,     \* retry: "attempt" (an attempt in flight), "sleep" (backoff), "done"
    rio,        \* retry: what the attempt in flight yields when next polled
    rtimer,     \* retry: the backoff sleep has elapsed
    rsig,       \* retry: the broadcast channel: "none", "sent", "closed", "taken"
    rcalls,     \* retry: how many times the operation has been called
    rsleeps,    \* retry: how many backoff sleeps have been started
    rlog,       \* retry: how each attempt that ended did end, in order
    rresult,    \* retry: what retry_notify_with_deadline returned
    pconn,      \* proxy: the addresses of the connection at hand
    pheader     \* proxy: what the header generator returned for it

dvars == <<dwire, dclosed, dput, dwriting, dtorn, dsent, dframes, drcvd, dreader, dfail>>

cvars == <<cwire, cclosed, cwritten, cread, creader>>

rvars == <<rphase, rio, rtimer, rsig, rcalls, rsleeps, rlog, rresult>>

pvars == <<pconn, pheader>>

vars == <<dvars, cvars, rvars, pvars>>

----------------------------------------------------------------------------
(* Protocol constants, protocol.rs:1-9 *)

HASH_WIDTH_IN_BYTES == 32

PROTO_V0 == 0

PROTO_V1 == 1

CURRENT_PROTO_VERSION == PROTO_V1

----------------------------------------------------------------------------
(* Integer widths: Rust's `as u8` and `as u16` keep the low bits. *)

AsU8(n) == n % 256

AsU16(n) == n % 65536

\* The first n elements of s, and s without them (n <= Len(s)).
Take(s, n) == SubSeq(s, 1, n)

Drop(s, n) == SubSeq(s, n + 1, Len(s))

----------------------------------------------------------------------------
(* Run-length encoded byte strings. *)

Run(b, n) == [b |-> b, n |-> n]

\* The number of bytes.
RECURSIVE RLen(_)
RLen(r) == IF r = <<>> THEN 0 ELSE r[1].n + RLen(Tail(r))

\* r followed by s.
RCat(r, s) ==
    IF r = <<>> THEN s
    ELSE IF s = <<>> THEN r
    ELSE IF r[Len(r)].b = s[1].b
         THEN Take(r, Len(r) - 1) \o <<Run(s[1].b, r[Len(r)].n + s[1].n)>> \o Tail(s)
    ELSE r \o s

\* The bytes of the buffer s.
RECURSIVE RFromSeq(_)
RFromSeq(s) ==
    IF s = <<>> THEN <<>> ELSE RCat(<<Run(s[1], 1)>>, RFromSeq(Tail(s)))

\* The first n bytes of r, and r without them (n <= RLen(r)).
RECURSIVE RTake(_, _)
RTake(r, n) ==
    IF n = 0 THEN <<>>
    ELSE IF r[1].n <= n THEN RCat(<<r[1]>>, RTake(Tail(r), n - r[1].n))
    ELSE <<Run(r[1].b, n)>>

RECURSIVE RDrop(_, _)
RDrop(r, n) ==
    IF n = 0 THEN r
    ELSE IF r[1].n <= n THEN RDrop(Tail(r), n - r[1].n)
    ELSE <<Run(r[1].b, r[1].n - n)>> \o Tail(r)

\* The bytes of r as a buffer.
RECURSIVE RToSeq(_)
RToSeq(r) ==
    IF r = <<>> THEN <<>> ELSE [i \in 1..r[1].n |-> r[1].b] \o RToSeq(Tail(r))

----------------------------------------------------------------------------
(* bincode 2, config::standard(): little endian, variable-length integers. *)
(* An unsigned integer below 251 is one byte; otherwise a marker byte      *)
(* (251 for u16, 252 for u32) and the value in little-endian order.  A u8  *)
(* is always the byte itself.  An enum is its variant index as a u32, then *)
(* the fields in order; a [u8; N] array is its N bytes.                    *)

SINGLE_BYTE_MAX == 250

U16_BYTE == 251

U32_BYTE == 252

LeBytes(v, n) == [i \in 1..n |-> (v \div (256 ^ (i - 1))) % 256]

RECURSIVE FromLeBytes(_)
FromLeBytes(b) == IF b = <<>> THEN 0 ELSE b[1] + 256 * FromLeBytes(Tail(b))

\* Faulty variant: the u8 written as a variable-length integer, like the wider ones.
EncodeU8_Varint(v) ==
    IF v <= SINGLE_BYTE_MAX THEN <<v>> ELSE <<U16_BYTE>> \o LeBytes(v, 2)

EncodeU8(v) == <<v>>

\* Faulty variant: the two bytes of a u16 in big-endian order.
EncodeU16_BigEndian(v) ==
    IF v <= SINGLE_BYTE_MAX THEN <<v>> ELSE <<U16_BYTE, v \div 256, v % 256>>

EncodeU16(v) ==
    IF v <= SINGLE_BYTE_MAX THEN <<v>> ELSE <<U16_BYTE>> \o LeBytes(v, 2)

EncodeU32(v) ==
    IF v <= SINGLE_BYTE_MAX THEN <<v>>
    ELSE IF v < 65536 THEN <<U16_BYTE>> \o LeBytes(v, 2)
    ELSE <<U32_BYTE>> \o LeBytes(v, 4)

\* A decoder reads buf from position pos (1-based) and yields either
\* [ok |-> TRUE, val, next] or Fail (any DecodeError: the readers only add
\* context to it); a failed step fails the whole, as Rust's `?` does.
Fail == [ok |-> FALSE]

Done(v, next) == [ok |-> TRUE, val |-> v, next |-> next]

DecodeBytes(buf, pos, n) ==
    IF pos + n - 1 > Len(buf) THEN Fail
    ELSE Done(SubSeq(buf, pos, pos + n - 1), pos + n)

DecodeU8(buf, pos) ==
    IF pos > Len(buf) THEN Fail ELSE Done(buf[pos], pos + 1)

\* maxMarker is U16_BYTE for a u16 and U32_BYTE for a u32: a marker of a wider
\* integer is an error, and so are the markers 253..255.
DecodeVarint(buf, pos, maxMarker) ==
    LET Body(body) ==
            IF ~body.ok THEN Fail ELSE Done(FromLeBytes(body.val), body.next)
        Marker(b) ==
            IF ~b.ok THEN Fail
            ELSE IF b.val <= SINGLE_BYTE_MAX THEN b
            ELSE IF b.val > maxMarker THEN Fail
            ELSE Body(DecodeBytes(buf, b.next, IF b.val = U16_BYTE THEN 2 ELSE 4))
    IN  Marker(DecodeU8(buf, pos))

DecodeU16(buf, pos) == DecodeVarint(buf, pos, U16_BYTE)

DecodeU32(buf, pos) == DecodeVarint(buf, pos, U32_BYTE)

----------------------------------------------------------------------------
(* std::net::SocketAddr under bincode: the variant index (0 = V4, 1 = V6), *)
(* the address octets, the port as a u16.  A V6 address's flowinfo and     *)
(* scope_id are not encoded, and decoding sets both to 0.                  *)

SocketAddrV4(ip, port) == [fam |-> "V4", ip |-> ip, port |-> port]

SocketAddrV6(ip, port, flowinfo, scope_id) ==
    [fam |-> "V6", ip |-> ip, port |-> port,
     flowinfo |-> flowinfo, scope_id |-> scope_id]

EncodeSocketAddr(a) ==
    IF a.fam = "V4" THEN EncodeU32(0) \o a.ip \o EncodeU16(a.port)
    ELSE EncodeU32(1) \o a.ip \o EncodeU16(a.port)

DecodeSocketAddr(buf, pos) ==
    LET Port(tag, ip, port) ==
            IF ~port.ok THEN Fail
            ELSE Done(IF tag.val = 0 THEN SocketAddrV4(ip.val, port.val)
                      ELSE SocketAddrV6(ip.val, port.val, 0, 0),
                      port.next)
        Ip(tag, ip) ==
            IF ~ip.ok THEN Fail ELSE Port(tag, ip, DecodeU16(buf, ip.next))
        Tag(tag) ==
            IF ~tag.ok THEN Fail
            ELSE IF tag.val \notin {0, 1} THEN Fail
            ELSE Ip(tag, DecodeBytes(buf, tag.next, IF tag.val = 0 THEN 4 ELSE 16))
    IN  Tag(DecodeU32(buf, pos))

----------------------------------------------------------------------------
(* UdpHeader and UdpTraffic, protocol.rs:61-136 *)

UdpHeader(from, len) == [from |-> from, len |-> len]

UdpTraffic(from, data) == [from |-> from, data |-> data]

EncodeUdpHeader(hdr) == EncodeSocketAddr(hdr.from) \o EncodeU16(hdr.len)

DecodeUdpHeader(buf, pos) ==
    LET Length(from, len) ==
            IF ~len.ok THEN Fail ELSE Done(UdpHeader(from.val, len.val), len.next)
        From(from) ==
            IF ~from.ok THEN Fail ELSE Length(from, DecodeU16(buf, from.next))
    IN  From(DecodeSocketAddr(buf, pos))

\* Faulty variant: the payload length cast to u8 instead of UdpPacketLen.
UdpTrafficWriteBytes_LenU8(t) ==
    LET hdr == UdpHeader(t.from, AsU8(RLen(t.data)))
        v == EncodeUdpHeader(hdr)
    IN  RCat(RFromSeq(<<AsU8(Len(v))>> \o v), t.data)

\* Faulty variant: the prefix counts itself with the header.
UdpTrafficWriteBytes_PrefixOffByOne(t) ==
    LET hdr == UdpHeader(t.from, AsU16(RLen(t.data)))
        v == EncodeUdpHeader(hdr)
    IN  RCat(RFromSeq(<<AsU8(Len(v) + 1)>> \o v), t.data)

\* UdpTraffic::write: the bytes it puts on the writer, in order: write_u8 of
\* the header's length (protocol.rs:84), write_all of the header (85),
\* write_all of the payload (87).
UdpTrafficWriteBytes(t) ==
    LET hdr == UdpHeader(t.from, AsU16(RLen(t.data)))
        v == EncodeUdpHeader(hdr)
    IN  RCat(RFromSeq(<<AsU8(Len(v))>> \o v), t.data)

\* One poll of a write call that has the bytes `left` to put, on a stream
\* with room for `room` bytes: the bytes it puts, and those it is left with,
\* suspended at the await it has reached, unless none are left and it
\* returns Ok.
WritePoll(left, room) ==
    IF RLen(left) <= room THEN [put |-> left, left |-> <<>>]
    ELSE [put |-> RTake(left, room), left |-> RDrop(left, room)]

\* What a read_exact yields when the bytes it waits for are not there: Err
\* at the end of the stream, having taken the `avail` bytes that were
\* there, and otherwise nothing yet.
Short(closed, avail, err) ==
    IF closed THEN [status |-> "err", err |-> err, used |-> avail]
    ELSE [status |-> "pending"]

\* UdpTraffic::read on a reader holding `bytes` (ended after them when
\* `closed`): "ok" with the value, "err" (read_exact met the end of the
\* stream, or the header did not decode), both with the number of bytes
\* taken from the reader, or "pending" (read_exact is still waiting).
UdpTrafficRead(bytes, closed, hdr_len) ==
    LET Data(hdr, rest) ==
            IF RLen(rest) < hdr.len THEN Short(closed, RLen(bytes), "early eof")
            ELSE [status |-> "ok",
                  val |-> UdpTraffic(hdr.from, RTake(rest, hdr.len)),
                  used |-> hdr_len + hdr.len]
        Header(hdr) ==
            IF ~hdr.ok
            THEN [status |-> "err", err |-> "Failed to deserialize UdpHeader",
                  used |-> hdr_len]
            ELSE Data(hdr.val, RDrop(bytes, hdr_len))
    IN  IF RLen(bytes) < hdr_len
        THEN Short(closed, RLen(bytes), "Failed to read udp header")
        ELSE Header(DecodeUdpHeader(RToSeq(RTake(bytes, hdr_len)), 1))

\* One turn of the frame reader: read_u8 for the header length, then
\* UdpTraffic::read with it.
ReadFrame(bytes, closed) ==
    LET Counted(r) == IF r.status = "pending" THEN r ELSE [r EXCEPT !.used = @ + 1]
    IN  IF bytes = <<>> THEN Short(closed, 0, "unexpected end of file")
        ELSE Counted(UdpTrafficRead(RDrop(bytes, 1), closed, bytes[1].b))

----------------------------------------------------------------------------
(* The UDP data channel: one side writes UdpTraffic frames back to back,   *)
(* the other reads them one at a time.                                     *)

\* How many write calls are made on the stream.
MaxFrames == 2

\* How many polls of one write call leave it suspended inside its frame.
MaxPolls == 1

U16_MAX == 65535

Addr4Lo == SocketAddrV4(<<1, 2, 3, 4>>, 53)

Addr4Hi == SocketAddrV4(<<1, 2, 3, 4>>, 55555)

Ip6Loopback == [i \in 1..16 |-> IF i = 16 THEN 1 ELSE 0]

Ip6LinkLocal ==
    [i \in 1..16 |-> IF i = 1 THEN 254 ELSE IF i = 2 THEN 128 ELSE IF i = 16 THEN 1 ELSE 0]

Addr6 == SocketAddrV6(Ip6Loopback, 8080, 0, 0)

Addr6Scoped == SocketAddrV6(Ip6LinkLocal, 250, 0, 3)

\* A payload of more than U16_MAX bytes that starts with the bytes of a
\* frame of its own (from Addr4Lo, the payload <<9, 9>>).
Nested ==
    RCat(UdpTrafficWriteBytes(UdpTraffic(Addr4Lo, <<Run(9, 2)>>)), <<Run(0, U16_MAX)>>)

\* The datagrams offered to the writer: both address families, ports and
\* payload lengths on both sides of the one-byte varint limit, the longest
\* payload a u16 counts and the first ones it does not.
UdpInputs ==
    { UdpTraffic(Addr4Lo, RFromSeq(<<222, 173, 190, 239>>)),
      UdpTraffic(Addr4Hi, <<>>),
      UdpTraffic(Addr4Hi, <<Run(5, SINGLE_BYTE_MAX)>>),
      UdpTraffic(Addr4Hi, <<Run(5, SINGLE_BYTE_MAX + 1)>>),
      UdpTraffic(Addr4Lo, <<Run(1, 255), Run(2, 2)>>),
      UdpTraffic(Addr6, RFromSeq(<<202, 254, 186, 190>>)),
      UdpTraffic(Addr6, <<Run(0, SINGLE_BYTE_MAX + 1)>>),
      UdpTraffic(Addr6Scoped, <<Run(1, 1)>>),
      UdpTraffic(Addr4Hi, <<Run(0, U16_MAX)>>),
      UdpTraffic(Addr4Hi, <<Run(0, U16_MAX + 1)>>),
      UdpTraffic(Addr6, Nested) }

\* Room on the stream for one poll of a write: for the prefix and part of
\* the header, for all or nearly all of the header and, after the shortest
\* one, the payload's first byte, and for any frame whole.
RoomForAll == 2 * (U16_MAX + 1)

Rooms == {4, 9, RoomForAll}

NoWrite == [pc |-> "none"]

NoFail == [err |-> "none", used |-> 0]

UdpInit ==
    /\ dwire = <<>>
    /\ dclosed = FALSE
    /\ dput = 0
    /\ dwriting = NoWrite
    /\ dtorn = 0
    /\ dsent = <<>>
    /\ dframes = <<>>
    /\ drcvd = <<>>
    /\ dreader = "reading"
    /\ dfail = NoFail

\* What a write call that returned Ok put on the stream: where its frame
\* starts, the number of bytes, the prefix byte, and the header bytes that
\* follow the prefix.
FramePut(bytes, start) ==
    [start |-> start, size |-> RLen(bytes), prefix |-> bytes[1].b,
     hdr_bytes |-> RToSeq(RTake(RDrop(bytes, 1), bytes[1].b))]

\* A poll of the write call w with `room` on the stream: it puts what
\* there is room for and stays suspended inside the frame, or puts the
\* rest and returns Ok.
UdpWritePolled(w, room) ==
    \E p \in {WritePoll(w.left, room)} :
        /\ dwire' = RCat(dwire, p.put)
        /\ dput' = dput + RLen(p.put)
        /\ IF p.left = <<>>
           THEN /\ dwriting' = NoWrite
                /\ dsent' = Append(dsent, w.t)
                /\ dframes' = Append(dframes, FramePut(w.bytes, w.start))
           ELSE /\ w.polls < MaxPolls
                /\ dwriting' = [w EXCEPT !.left = p.left, !.polls = @ + 1]
                /\ UNCHANGED <<dsent, dframes>>

\* UdpTraffic::write(t) is called on the data channel and polled once.
UdpWrite(t, room) ==
    /\ ~dclosed
    /\ dwriting = NoWrite
    /\ Len(dsent) + dtorn < MaxFrames
    /\ \E bytes \in {UdpTrafficWriteBytes(t)} :
          UdpWritePolled([pc |-> "write", t |-> t, bytes |-> bytes, left |-> bytes,
                          start |-> dput, polls |-> 0], room)
    /\ UNCHANGED <<dclosed, dtorn, drcvd, dreader, dfail, cvars, rvars, pvars>>

\* The suspended write call is polled again.
UdpWriteResume(room) ==
    /\ ~dclosed
    /\ dwriting # NoWrite
    /\ UdpWritePolled(dwriting, room)
    /\ UNCHANGED <<dclosed, dtorn, drcvd, dreader, dfail, cvars, rvars, pvars>>

\* The suspended write call ends inside its frame: the writer returned an
\* error at the await (`?`), or the future was dropped.
UdpWriteAbort ==
    /\ dwriting # NoWrite
    /\ dwriting' = NoWrite
    /\ dtorn' = dtorn + 1
    /\ UNCHANGED <<dwire, dclosed, dput, dsent, dframes, drcvd, dreader, dfail,
                   cvars, rvars, pvars>>

\* The writing side shuts the stream down: the reader meets the end of the
\* stream after the bytes already written.
UdpClose ==
    /\ ~dclosed
    /\ dwriting = NoWrite
    /\ dclosed' = TRUE
    /\ UNCHANGED <<dwire, dput, dwriting, dtorn, dsent, dframes, drcvd, dreader,
                   dfail, cvars, rvars, pvars>>

\* The reader reads the prefix byte and calls UdpTraffic::read, which
\* returns a frame.
UdpReadOk ==
    \E r \in {ReadFrame(dwire, dclosed)} :
        /\ dreader = "reading"
        /\ r.status = "ok"
        /\ dwire' = RDrop(dwire, r.used)
        /\ drcvd' = Append(drcvd, [val |-> r.val, used |-> r.used])
        /\ UNCHANGED <<dclosed, dput, dwriting, dtorn, dsent, dframes, dreader,
                       dfail, cvars, rvars, pvars>>

\* The same, and the read returns Err, having taken the bytes it read: the
\* reader gives the channel up.
UdpReadErr ==
    \E r \in {ReadFrame(dwire, dclosed)} :
        /\ dreader = "reading"
        /\ r.status = "err"
        /\ dwire' = RDrop(dwire, r.used)
        /\ dreader' = "failed"
        /\ dfail' = [err |-> r.err, used |-> r.used]
        /\ UNCHANGED <<dclosed, dput, dwriting, dtorn, dsent, dframes, drcvd,
                       cvars, rvars, pvars>>

----------------------------------------------------------------------------
(* The fixed-shape messages, protocol.rs:19-59, and their bincode form.    *)

HelloVariants == <<"ControlChannelHello", "DataChannelHello">>

AckVariants == <<"Ok", "ServiceNotExist", "AuthFailed">>

ControlChannelCmdVariants == <<"CreateDataChannel", "HeartBeat">>

DataChannelCmdVariants == <<"StartForwardTcp", "StartForwardUdp">>

\* The variant index the derive gives a variant: its place in the enum, from 0.
VariantIndex(variants, name) ==
    (CHOOSE i \in 1..Len(variants) : variants[i] = name) - 1

Hello(variant, version, digest) ==
    [type |-> "Hello", variant |-> variant, version |-> version, digest |-> digest]

Auth(digest) == [type |-> "Auth", digest |-> digest]

Ack(variant) == [type |-> "Ack", variant |-> variant]

ControlChannelCmd(variant) == [type |-> "ControlChannelCmd", variant |-> variant]

DataChannelCmd(variant) == [type |-> "DataChannelCmd", variant |-> variant]

EncodeHello(h) ==
    EncodeU32(VariantIndex(HelloVariants, h.variant)) \o EncodeU8(h.version) \o h.digest

EncodeAuth(a) == a.digest

EncodeAck(a) == EncodeU32(VariantIndex(AckVariants, a.variant))

EncodeControlChannelCmd(c) ==
    EncodeU32(VariantIndex(ControlChannelCmdVariants, c.variant))

EncodeDataChannelCmd(c) ==
    EncodeU32(VariantIndex(DataChannelCmdVariants, c.variant))

Encode(m) ==
    CASE m.type = "Hello" -> EncodeHello(m)
      [] m.type = "Auth" -> EncodeAuth(m)
      [] m.type = "Ack" -> EncodeAck(m)
      [] m.type = "ControlChannelCmd" -> EncodeControlChannelCmd(m)
      [] m.type = "DataChannelCmd" -> EncodeDataChannelCmd(m)

\* The variant index of an enum, which must name a variant: the variant.
DecodeVariant(buf, pos, variants) ==
    LET Tag(tag) ==
            IF ~tag.ok THEN Fail
            ELSE IF tag.val >= Len(variants) THEN Fail
            ELSE Done(variants[tag.val + 1], tag.next)
    IN  Tag(DecodeU32(buf, pos))

DecodeHello(buf, pos) ==
    LET Digest(variant, v, d) ==
            IF ~d.ok THEN Fail ELSE Done(Hello(variant.val, v.val, d.val), d.next)
        Version(variant, v) ==
            IF ~v.ok THEN Fail
            ELSE Digest(variant, v, DecodeBytes(buf, v.next, HASH_WIDTH_IN_BYTES))
        Variant(variant) ==
            IF ~variant.ok THEN Fail ELSE Version(variant, DecodeU8(buf, variant.next))
    IN  Variant(DecodeVariant(buf, pos, HelloVariants))

DecodeAuth(buf, pos) ==
    LET Digest(d) == IF ~d.ok THEN Fail ELSE Done(Auth(d.val), d.next)
    IN  Digest(DecodeBytes(buf, pos, HASH_WIDTH_IN_BYTES))

DecodeAck(buf, pos) ==
    LET Variant(v) == IF ~v.ok THEN Fail ELSE Done(Ack(v.val), v.next)
    IN  Variant(DecodeVariant(buf, pos, AckVariants))

DecodeControlChannelCmd(buf, pos) ==
    LET Variant(v) == IF ~v.ok THEN Fail ELSE Done(ControlChannelCmd(v.val), v.next)
    IN  Variant(DecodeVariant(buf, pos, ControlChannelCmdVariants))

DecodeDataChannelCmd(buf, pos) ==
    LET Variant(v) == IF ~v.ok THEN Fail ELSE Done(DataChannelCmd(v.val), v.next)
    IN  Variant(DecodeVariant(buf, pos, DataChannelCmdVariants))

\* digest(b"default"): SHA-256 of the seven bytes of "default".
DigestDefault ==
    <<55, 168, 238, 193, 206, 25, 104, 125, 19, 47, 226, 144, 81, 220, 166, 41,
      209, 100, 226, 196, 149, 139, 161, 65, 213, 244, 19, 58, 51, 240, 104, 143>>

\* PacketLength::new: the length of one sample of each type, encoded.
PACKET_LEN ==
    [hello |-> Len(EncodeHello(Hello("ControlChannelHello", CURRENT_PROTO_VERSION,
                                     DigestDefault))),
     ack |-> Len(EncodeAck(Ack("Ok"))),
     auth |-> Len(EncodeAuth(Auth(DigestDefault))),
     c_cmd |-> Len(EncodeControlChannelCmd(ControlChannelCmd("CreateDataChannel"))),
     d_cmd |-> Len(EncodeDataChannelCmd(DataChannelCmd("StartForwardTcp")))]

----------------------------------------------------------------------------
(* The fixed-length readers, protocol.rs:196-270.  A read yields "pending" *)
(* while read_exact waits for bytes, and otherwise "ok" or "err" with the  *)
(* number of bytes it took from the stream.                                *)

Err(msg) == [msg |-> msg]

VersionMismatch(expected, got) ==
    [msg |-> "Protocol version mismatched", expected |-> expected, got |-> got]

ReadErr(err, used) == [status |-> "err", err |-> err, used |-> used]

ReadOk(val, used) == [status |-> "ok", val |-> val, used |-> used]

\* conn.read_exact(&mut buf) with its context, buf of n bytes: the buffer
\* filled; at the end of the stream it fails, having taken the bytes that
\* were left.
read_exact(bytes, closed, n, readContext) ==
    IF Len(bytes) >= n THEN [status |-> "read", buf |-> Take(bytes, n)]
    ELSE IF closed THEN ReadErr(Err(readContext), Len(bytes))
    ELSE [status |-> "pending"]

\* The decode-and-return tail the four plain readers share.
Returned(r, n, context) ==
    IF r.ok THEN ReadOk(r.val, n) ELSE ReadErr(Err(context), n)

\* Faulty variant: the version checked in the ControlChannelHello arm only.
read_hello_ControlOnly(bytes, closed) ==
    LET Checked(hello) ==
            IF ~hello.ok THEN ReadErr(Err("Failed to deserialize hello"), PACKET_LEN.hello)
            ELSE IF /\ hello.val.variant = "ControlChannelHello"
                    /\ hello.val.version # CURRENT_PROTO_VERSION
                 THEN ReadErr(VersionMismatch(CURRENT_PROTO_VERSION, hello.val.version),
                              PACKET_LEN.hello)
            ELSE ReadOk(hello.val, PACKET_LEN.hello)
        Decoded(r) == IF r.status = "read" THEN Checked(DecodeHello(r.buf, 1)) ELSE r
    IN  Decoded(read_exact(bytes, closed, PACKET_LEN.hello, "Failed to read hello"))

read_hello(bytes, closed) ==
    LET Checked(hello) ==
            IF ~hello.ok THEN ReadErr(Err("Failed to deserialize hello"), PACKET_LEN.hello)
            ELSE IF hello.val.version # CURRENT_PROTO_VERSION
                 THEN ReadErr(VersionMismatch(CURRENT_PROTO_VERSION, hello.val.version),
                              PACKET_LEN.hello)
            ELSE ReadOk(hello.val, PACKET_LEN.hello)
        Decoded(r) == IF r.status = "read" THEN Checked(DecodeHello(r.buf, 1)) ELSE r
    IN  Decoded(read_exact(bytes, closed, PACKET_LEN.hello, "Failed to read hello"))

\* Faulty variant: the Hello's length read for an Auth.
read_auth_HelloLen(bytes, closed) ==
    LET Decoded(r) ==
            IF r.status = "read"
            THEN Returned(DecodeAuth(r.buf, 1), PACKET_LEN.hello, "Failed to deserialize auth")
            ELSE r
    IN  Decoded(read_exact(bytes, closed, PACKET_LEN.hello, "Failed to read auth"))

read_auth(bytes, closed) ==
    LET Decoded(r) ==
            IF r.status = "read"
            THEN Returned(DecodeAuth(r.buf, 1), PACKET_LEN.auth, "Failed to deserialize auth")
            ELSE r
    IN  Decoded(read_exact(bytes, closed, PACKET_LEN.auth, "Failed to read auth"))

read_ack(bytes, closed) ==
    LET Decoded(r) ==
            IF r.status = "read"
            THEN Returned(DecodeAck(r.buf, 1), PACKET_LEN.ack, "Failed to deserialize ack")
            ELSE r
    IN  Decoded(read_exact(bytes, closed, PACKET_LEN.ack, "Failed to read ack"))

read_control_cmd(bytes, closed) ==
    LET Decoded(r) ==
            IF r.status = "read"
            THEN Returned(DecodeControlChannelCmd(r.buf, 1), PACKET_LEN.c_cmd, "Failed to deserialize control cmd")
            ELSE r
    IN  Decoded(read_exact(bytes, closed, PACKET_LEN.c_cmd, "Failed to read cmd"))

read_data_cmd(bytes, closed) ==
    LET Decoded(r) ==
            IF r.status = "read"
            THEN Returned(DecodeDataChannelCmd(r.buf, 1), PACKET_LEN.d_cmd, "Failed to deserialize data cmd")
            ELSE r
    IN  Decoded(read_exact(bytes, closed, PACKET_LEN.d_cmd, "Failed to read cmd"))

Readers == {"read_hello", "read_auth", "read_ack", "read_control_cmd", "read_data_cmd"}

Read(reader, bytes, closed) ==
    CASE reader = "read_hello" -> read_hello(bytes, closed)
      [] reader = "read_auth" -> read_auth(bytes, closed)
      [] reader = "read_ack" -> read_ack(bytes, closed)
      [] reader = "read_control_cmd" -> read_control_cmd(bytes, closed)
      [] reader = "read_data_cmd" -> read_data_cmd(bytes, closed)

\* write_and_flush(conn, data), helper.rs:186-195, polled once with `put`
\* bytes of data on the stream already.  The stream takes up to `room` bytes
\* more, and `then` is what it does next: "ok" is ready, "pending" would
\* block, "err" fails.  write_all (helper.rs:190) loops until all of data is
\* put: it suspends where the stream would block and ends the call with
\* "Failed to write data" where the stream fails.  With all of data put,
\* flush (helper.rs:193) returns Ok, suspends, or ends the call with "Failed
\* to flush data".  The bytes put stay on the stream whatever the result.
write_and_flush(data, put, room, then) ==
    LET Put(n) ==
            IF put + n < Len(data)
            THEN [put |-> put + n,
                  res |-> IF then = "err" THEN "Failed to write data" ELSE "pending"]
            ELSE [put |-> put + n,
                  res |-> CASE then = "ok" -> "ok"
                            [] then = "pending" -> "pending"
                            [] then = "err" -> "Failed to flush data"]
    IN  Put(IF Len(data) - put <= room THEN Len(data) - put ELSE room)

----------------------------------------------------------------------------
(* The control channel: one side writes fixed-shape messages back to back  *)
(* (or, a peer that does not speak the protocol, other bytes), the other   *)
(* calls the readers.                                                      *)

MaxMsgs == 2

DigestToken == [i \in 1..HASH_WIDTH_IN_BYTES |-> 171]

CtrlInputs ==
    { Hello("ControlChannelHello", n, DigestDefault) : n \in {PROTO_V0, PROTO_V1} }
    \cup { Hello("DataChannelHello", n, DigestToken) : n \in {PROTO_V1, 251} }
    \cup { Auth(DigestToken) }
    \cup { Ack(v) : v \in {"Ok", "AuthFailed"} }
    \cup { ControlChannelCmd("HeartBeat"), DataChannelCmd("StartForwardUdp") }

\* Bytes that encode no message: a variant index no enum has, a Hello with
\* such an index.
RawInputs ==
    { <<3>>,
      <<2, PROTO_V1>> \o DigestDefault }

\* What the stream takes in one poll of a write, and what it does next.
CtrlRooms == {0, 4, HASH_WIDTH_IN_BYTES + 2}

StreamThen == {"ok", "pending", "err"}

CtrlInit ==
    /\ cwire = <<>>
    /\ cclosed = FALSE
    /\ cwritten = <<>>
    /\ cread = <<>>
    /\ creader = "reading"

\* A call of write_and_flush is in flight: the last call made is suspended.
CtrlWriting ==
    /\ cwritten # <<>>
    /\ cwritten[Len(cwritten)].res = "pending"

\* A call of write_and_flush returned Err: the writer gives the channel up,
\* as the reader does.
CtrlWriteFailed ==
    /\ cwritten # <<>>
    /\ cwritten[Len(cwritten)].res \notin {"pending", "ok"}

\* The call w of write_and_flush is polled: what it puts goes on the stream,
\* and the call returns or stays suspended (w.polls counts the times it
\* has suspended).
CtrlPolled(calls, w, room, then) ==
    \E p \in {write_and_flush(w.bytes, w.put, room, then)} :
        /\ p.res = "pending" => w.polls < MaxPolls
        /\ cwire' = cwire \o SubSeq(w.bytes, w.put + 1, p.put)
        /\ cwritten' =
              Append(calls,
                     [f \in (IF p.res = "pending" THEN DOMAIN w
                             ELSE DOMAIN w \ {"polls"}) |->
                        CASE f = "put" -> p.put
                          [] f = "res" -> p.res
                          [] f = "polls" -> w.polls + 1
                          [] OTHER -> w[f]])
        /\ UNCHANGED <<cclosed, cread, creader, dvars, rvars, pvars>>

\* The writer sends the message m: write_and_flush of its encoding.
CtrlSend(m, room, then) ==
    /\ ~cclosed
    /\ ~CtrlWriting
    /\ ~CtrlWriteFailed
    /\ Len(cwritten) < MaxMsgs
    /\ CtrlPolled(cwritten, [kind |-> "msg", msg |-> m, bytes |-> Encode(m),
                             put |-> 0, res |-> "pending", polls |-> 0],
                  room, then)

\* The writer sends bytes that are no message.
CtrlSendRaw(b, room, then) ==
    /\ ~cclosed
    /\ ~CtrlWriting
    /\ ~CtrlWriteFailed
    /\ Len(cwritten) < MaxMsgs
    /\ CtrlPolled(cwritten, [kind |-> "raw", bytes |-> b,
                             put |-> 0, res |-> "pending", polls |-> 0],
                  room, then)

\* The suspended call of write_and_flush is polled again.
CtrlWriteResume(room, then) ==
    /\ ~cclosed
    /\ CtrlWriting
    /\ CtrlPolled(SubSeq(cwritten, 1, Len(cwritten) - 1),
                  cwritten[Len(cwritten)], room, then)

\* The writer's end of the stream closes, no write in flight.
CtrlClose ==
    /\ ~cclosed
    /\ ~CtrlWriting
    /\ cclosed' = TRUE
    /\ UNCHANGED <<cwire, cwritten, cread, creader, dvars, rvars, pvars>>

\* A call of one of the readers returns; after an Err the caller gives the
\* channel up.  The caller reads when it expects a message: one call for
\* each write, and one more at the end of the stream.
CtrlRead(reader) ==
    \E r \in {Read(reader, cwire, cclosed)} :
        /\ creader = "reading"
        /\ Len(cread) < Len(cwritten) + (IF cclosed THEN 1 ELSE 0)
        /\ r.status # "pending"
        /\ cwire' = Drop(cwire, r.used)
        /\ cread' = Append(cread, [reader |-> reader, res |-> r])
        /\ creader' = IF r.status = "err" THEN "failed" ELSE "reading"
        /\ UNCHANGED <<cclosed, cwritten, dvars, rvars, pvars>>

----------------------------------------------------------------------------
(* retry_notify_with_deadline, helper.rs:163-184: tokio::select! over      *)
(* backoff::future::retry_notify(backoff, operation, notify) and           *)
(* deadline.recv().                                                        *)
(*                                                                         *)
(* The retry future calls the operation once when it is made.  Polled, it  *)
(* waits out a pending backoff sleep, then polls the attempt: Ok ends it   *)
(* with the value, a permanent error ends it with the error, a transient   *)
(* error asks the backoff for the next delay, and either starts the sleep  *)
(* and calls the operation again, or, the backoff exhausted, ends with the *)
(* error.  select! polls its two branches in an order drawn at random and  *)
(* returns with the first that is ready, dropping the other.               *)

MaxCalls == 3

\* What an attempt of the handshake meets: the server's Ack, or an I/O error.
Events == {"AckOk", "AckServiceNotExist", "AckAuthFailed", "IoError"}

\* The backoff::Error an attempt ends with, or "Ok".
AttemptOutcome(ev) ==
    CASE ev = "AckOk" -> "Ok"
      [] ev \in {"AckServiceNotExist", "AckAuthFailed"} -> "Permanent"
      [] ev = "IoError" -> "Transient"

NoResult == [kind |-> "none"]

ResultOk == [kind |-> "ok"]

ResultErr(err) == [kind |-> "err", err |-> err]

\* The retry future's state, and what a poll of it yields: the state after
\* the poll and `ready`, the value it returned or NoResult.
RetryState == [phase |-> rphase, io |-> rio, timer |-> rtimer,
               calls |-> rcalls, sleeps |-> rsleeps, log |-> rlog]

Polled(st, ready) == [st |-> st, ready |-> ready]

\* Faulty variant: a permanent error retried like a transient one.
PollAttempt_AllTransient(st, giveUp) ==
    LET ended == [st EXCEPT !.log = Append(@, st.io), !.phase = "done"]
    IN  IF st.io = "pending" THEN Polled(st, NoResult)
        ELSE IF AttemptOutcome(st.io) = "Ok" THEN Polled(ended, ResultOk)
        ELSE IF giveUp THEN Polled(ended, ResultErr(st.io))
        ELSE Polled([st EXCEPT !.log = Append(@, st.io), !.phase = "sleep",
                               !.timer = FALSE, !.io = "pending",
                               !.sleeps = @ + 1, !.calls = @ + 1],
                    NoResult)

\* Polling the attempt in flight.  giveUp: next_backoff() returns None.
PollAttempt(st, giveUp) ==
    LET ended == [st EXCEPT !.log = Append(@, st.io), !.phase = "done"]
    IN  IF st.io = "pending" THEN Polled(st, NoResult)
        ELSE IF AttemptOutcome(st.io) = "Ok" THEN Polled(ended, ResultOk)
        ELSE IF AttemptOutcome(st.io) = "Permanent" THEN Polled(ended, ResultErr(st.io))
        ELSE IF giveUp THEN Polled(ended, ResultErr(st.io))
        ELSE Polled([st EXCEPT !.log = Append(@, st.io), !.phase = "sleep",
                               !.timer = FALSE, !.io = "pending",
                               !.sleeps = @ + 1, !.calls = @ + 1],
                    NoResult)

\* Retry::poll.  fresh: what the attempt begun in this poll yields at once.
RetryPoll(st, fresh, giveUp) ==
    IF st.phase = "sleep"
    THEN IF st.timer THEN PollAttempt([st EXCEPT !.phase = "attempt", !.io = fresh], giveUp)
         ELSE Polled(st, NoResult)
    ELSE PollAttempt(st, giveUp)

\* deadline.recv() is ready when a value was sent or every sender is gone.
RecvReady(sig) == sig \in {"sent", "closed"}

AfterRecv(sig) == IF sig = "sent" THEN "taken" ELSE sig

\* Faulty variant: the signal is honoured during a backoff sleep only; received
\* during an attempt, it is dropped and the retry goes on.
Select_SleepOnly(st, sig, order, fresh, giveUp) ==
    LET Shutdown(s) ==
            IF s.phase = "sleep"
            THEN [st |-> [s EXCEPT !.phase = "done"], sig |-> AfterRecv(sig),
                  result |-> ResultErr("shutdown")]
            ELSE [st |-> s, sig |-> AfterRecv(sig), result |-> NoResult]
        Retried(p) ==
            IF p.ready # NoResult THEN [st |-> p.st, sig |-> sig, result |-> p.ready]
            ELSE IF order = "retry_first" /\ RecvReady(sig) THEN Shutdown(p.st)
            ELSE [st |-> p.st, sig |-> sig, result |-> NoResult]
    IN  IF order = "recv_first" /\ RecvReady(sig) THEN Shutdown(st)
        ELSE Retried(RetryPoll(st, fresh, giveUp))

\* One poll of the select!: the retry future's state, the channel and the
\* returned value (NoResult while both branches are pending) after it.
Select(st, sig, order, fresh, giveUp) ==
    LET Shutdown(s) ==
            [st |-> [s EXCEPT !.phase = "done"], sig |-> AfterRecv(sig),
             result |-> ResultErr("shutdown")]
        Retried(p) ==
            IF p.ready # NoResult THEN [st |-> p.st, sig |-> sig, result |-> p.ready]
            ELSE IF order = "retry_first" /\ RecvReady(sig) THEN Shutdown(p.st)
            ELSE [st |-> p.st, sig |-> sig, result |-> NoResult]
    IN  IF order = "recv_first" /\ RecvReady(sig) THEN Shutdown(st)
        ELSE Retried(RetryPoll(st, fresh, giveUp))

RetryInit ==
    /\ rphase = "attempt"
    /\ rio = "pending"
    /\ rtimer = FALSE
    /\ rsig = "none"
    /\ rcalls = 1
    /\ rsleeps = 0
    /\ rlog = <<>>
    /\ rresult = NoResult

\* The attempt in flight meets its outcome.
OpYields(ev) ==
    /\ rphase = "attempt"
    /\ rio = "pending"
    /\ rio' = ev
    /\ UNCHANGED <<rphase, rtimer, rsig, rcalls, rsleeps, rlog, rresult, dvars, cvars, pvars>>

\* The backoff sleep elapses.
TimerFires ==
    /\ rphase = "sleep"
    /\ ~rtimer
    /\ rtimer' = TRUE
    /\ UNCHANGED <<rphase, rio, rsig, rcalls, rsleeps, rlog, rresult, dvars, cvars, pvars>>

\* The shutdown signal is sent on the broadcast channel.
SendShutdown ==
    /\ rsig = "none"
    /\ rsig' = "sent"
    /\ UNCHANGED <<rphase, rio, rtimer, rcalls, rsleeps, rlog, rresult, dvars, cvars, pvars>>

\* Every sender of the broadcast channel is dropped.
DropSender ==
    /\ rsig = "none"
    /\ rsig' = "closed"
    /\ UNCHANGED <<rphase, rio, rtimer, rcalls, rsleeps, rlog, rresult, dvars, cvars, pvars>>

\* The task is polled.  The backoff gives up when it likes (its
\* max_elapsed_time), and here at the latest after MaxCalls calls.
Poll(order, fresh, giveUp) ==
    \E s \in {Select(RetryState, rsig, order, fresh, giveUp)} :
        /\ rphase # "done"
        /\ giveUp \/ rcalls < MaxCalls
        /\ rphase' = s.st.phase
        /\ rio' = s.st.io
        /\ rtimer' = s.st.timer
        /\ rcalls' = s.st.calls
        /\ rsleeps' = s.st.sleeps
        /\ rlog' = s.st.log
        /\ rsig' = s.sig
        /\ rresult' = s.result
        /\ UNCHANGED <<dvars, cvars, pvars>>

----------------------------------------------------------------------------
(* The PROXY protocol v2 header, helper.rs:212-246. *)

BeBytes16(v) == <<v \div 256, v % 256>>

PROXY_V2_SIGNATURE == <<13, 10, 13, 10, 0, 13, 10, 81, 85, 73, 84, 10>>

\* The sixteen bytes the header starts as: the signature, version 2 and
\* command PROXY, the family/protocol byte, the length.
ProxyV2Fixed == PROXY_V2_SIGNATURE \o <<33, 0, 0, 12>>

HeaderOk(header) == [ok |-> TRUE, header |-> header]

HeaderErr(msg) == [ok |-> FALSE, err |-> msg]

\* Faulty variant: the family taken from the source address alone.
generate_proxy_protocol_v2_header_core_SrcOnly(local_addr, remote_addr, is_tcp) ==
    LET Ports(header) ==
            header \o BeBytes16(remote_addr.port) \o BeBytes16(local_addr.port)
        Family(b) == [ProxyV2Fixed EXCEPT ![14] = b]
    IN  IF remote_addr.fam = "V4"
        THEN HeaderOk(Ports(Family(IF is_tcp THEN 17 ELSE 18)
                            \o remote_addr.ip \o local_addr.ip))
        ELSE HeaderOk(Ports(Family(IF is_tcp THEN 33 ELSE 34)
                            \o remote_addr.ip \o local_addr.ip))

generate_proxy_protocol_v2_header_core(local_addr, remote_addr, is_tcp) ==
    LET Ports(header) ==
            header \o BeBytes16(remote_addr.port) \o BeBytes16(local_addr.port)
        Family(b) == [ProxyV2Fixed EXCEPT ![14] = b]
    IN  IF remote_addr.fam = "V4" /\ local_addr.fam = "V4"
        THEN HeaderOk(Ports(Family(IF is_tcp THEN 17 ELSE 18)
                            \o remote_addr.ip \o local_addr.ip))
        ELSE IF remote_addr.fam = "V6" /\ local_addr.fam = "V6"
        THEN HeaderOk(Ports(Family(IF is_tcp THEN 33 ELSE 34)
                            \o remote_addr.ip \o local_addr.ip))
        ELSE HeaderErr("IP version mismatch")

\* TcpStream::local_addr and TcpStream::peer_addr: the address, or the I/O
\* error of getsockname / getpeername.  A stream its peer has reset has no
\* peer address any more (ENOTCONN).
IoOk(v) == [ok |-> TRUE, val |-> v]

IoErr(e) == [ok |-> FALSE, err |-> e]

TcpStream_local_addr(s) ==
    IF s.sock = "nobufs" THEN IoErr("ENOBUFS") ELSE IoOk(s.local)

TcpStream_peer_addr(s) ==
    IF s.sock = "nobufs" THEN IoErr("ENOBUFS")
    ELSE IF s.sock = "reset" THEN IoErr("ENOTCONN")
    ELSE IoOk(s.remote)

\* s is the stream; each `?` returns the I/O error as it is.
generate_proxy_protocol_v2_header_tcp(s) ==
    LET Peer(local, remote) ==
            IF ~remote.ok THEN HeaderErr(remote.err)
            ELSE generate_proxy_protocol_v2_header_core(local.val, remote.val, TRUE)
        Local(local) ==
            IF ~local.ok THEN HeaderErr(local.err) ELSE Peer(local, TcpStream_peer_addr(s))
    IN  Local(TcpStream_local_addr(s))

generate_proxy_protocol_v2_header_udp(local_addr, remote_addr) ==
    generate_proxy_protocol_v2_header_core(local_addr, remote_addr, FALSE)

Ip6Mapped ==
    [i \in 1..16 |-> IF i \in {11, 12} THEN 255 ELSE IF i > 12 THEN i - 12 ELSE 0]

ProxyAddrs ==
    { Addr4Hi,
      SocketAddrV4(<<5, 6, 7, 8>>, 8080),
      SocketAddrV4(<<127, 0, 0, 1>>, 53),
      Addr6,
      Addr6Scoped,
      SocketAddrV6(Ip6Mapped, 443, 0, 0) }

NoConn == [kind |-> "none"]

NoHeader == [ok |-> FALSE, err |-> "none"]

ProxyInit ==
    /\ pconn = NoConn
    /\ pheader = NoHeader

\* A visitor's TCP connection is accepted: a socket's two addresses are of
\* one family.
AcceptTcp(local, remote) ==
    /\ pconn = NoConn
    /\ local.fam = remote.fam
    /\ pconn' = [kind |-> "tcp", sock |-> "connected", local |-> local, remote |-> remote]
    /\ UNCHANGED <<pheader, dvars, cvars, rvars>>

\* Before the header is generated the visitor resets the connection, or
\* the system runs out of buffers for the socket calls.
SocketFails(how) ==
    /\ pconn.kind = "tcp"
    /\ pconn.sock = "connected"
    /\ pheader = NoHeader
    /\ pconn' = [pconn EXCEPT !.sock = how]
    /\ UNCHANGED <<pheader, dvars, cvars, rvars>>

\* A datagram is to be forwarded: the local address and the visitor's are
\* whatever the caller passes.
AcceptUdp(local, remote) ==
    /\ pconn = NoConn
    /\ pconn' = [kind |-> "udp", local |-> local, remote |-> remote]
    /\ UNCHANGED <<pheader, dvars, cvars, rvars>>

GenerateTcp ==
    /\ pconn.kind = "tcp"
    /\ pheader = NoHeader
    /\ pheader' = generate_proxy_protocol_v2_header_tcp(pconn)
    /\ UNCHANGED <<pconn, dvars, cvars, rvars>>

GenerateUdp ==
    /\ pconn.kind = "udp"
    /\ pheader = NoHeader
    /\ pheader' = generate_proxy_protocol_v2_header_udp(pconn.local, pconn.remote)
    /\ UNCHANGED <<pconn, dvars, cvars, rvars>>

----------------------------------------------------------------------------
(* The specifications: one per component, the other components at rest.    *)

Init == UdpInit /\ CtrlInit /\ RetryInit /\ ProxyInit

NextUdp ==
    \/ \E t \in UdpInputs, room \in Rooms : UdpWrite(t, room)
    \/ \E room \in Rooms : UdpWriteResume(room)
    \/ UdpWriteAbort
    \/ UdpClose
    \/ UdpReadOk
    \/ UdpReadErr

SpecUdp == Init /\ [][NextUdp]_vars

NextCtrl ==
    \/ \E m \in CtrlInputs, room \in CtrlRooms, then \in StreamThen :
          CtrlSend(m, room, then)
    \/ \E b \in RawInputs, room \in CtrlRooms, then \in StreamThen :
          CtrlSendRaw(b, room, then)
    \/ \E room \in CtrlRooms, then \in StreamThen : CtrlWriteResume(room, then)
    \/ CtrlClose
    \/ \E reader \in Readers : CtrlRead(reader)

SpecCtrl == Init /\ [][NextCtrl]_vars

NextRetry ==
    \/ \E ev \in Events : OpYields(ev)
    \/ TimerFires
    \/ SendShutdown
    \/ DropSender
    \/ \E order \in {"retry_first", "recv_first"}, fresh \in Events \cup {"pending"},
          giveUp \in BOOLEAN : Poll(order, fresh, giveUp)

SpecRetry == Init /\ [][NextRetry]_vars

NextProxy ==
    \/ \E local \in ProxyAddrs, remote \in ProxyAddrs : AcceptTcp(local, remote)
    \/ \E how \in {"reset", "nobufs"} : SocketFails(how)
    \/ \E local \in ProxyAddrs, remote \in ProxyAddrs : AcceptUdp(local, remote)
    \/ GenerateTcp
    \/ GenerateUdp

SpecProxy == Init /\ [][NextProxy]_vars

----------------------------------------------------------------------------
(* Properties of the control channel (SpecCtrl). *)

\* The bytes the first k reads took, and the bytes the first k calls of
\* write_and_flush put on the stream.
RECURSIVE CtrlUsed(_)
CtrlUsed(k) == IF k = 0 THEN 0 ELSE cread[k].res.used + CtrlUsed(k - 1)

RECURSIVE CtrlWrote(_)
CtrlWrote(k) == IF k = 0 THEN 0 ELSE cwritten[k].put + CtrlWrote(k - 1)

RECURSIVE CtrlStream(_)
CtrlStream(k) ==
    IF k = 0 THEN <<>>
    ELSE CtrlStream(k - 1) \o Take(cwritten[k].bytes, cwritten[k].put)

\* The i-th read started where the j-th write starts, and the j-th write
\* put all its bytes on the stream.
CtrlAligned(i, j) ==
    /\ i \in 1..Len(cread)
    /\ j \in 1..Len(cwritten)
    /\ CtrlUsed(i - 1) = CtrlWrote(j - 1)
    /\ cwritten[j].put = Len(cwritten[j].bytes)

\* The i-th read is a read_hello that read the Hello the j-th write sent.
ReadsHello(i, j) ==
    /\ CtrlAligned(i, j)
    /\ cread[i].reader = "read_hello"
    /\ cwritten[j].kind = "msg"
    /\ cwritten[j].msg.type = "Hello"

\* C1: a Hello of either variant whose version byte is not 1 makes read_hello
\* fail with the version-mismatch error naming the expected version 1 and the
\* version received, and return no Hello; a Hello with version 1 is returned
\* as it was sent.
C1_VersionMismatch ==
    \A i \in 1..Len(cread), j \in 1..Len(cwritten) :
        ReadsHello(i, j) =>
            IF cwritten[j].msg.version = 1
            THEN /\ cread[i].res.status = "ok"
                 /\ cread[i].res.val = cwritten[j].msg
            ELSE /\ cread[i].res.status = "err"
                 /\ cread[i].res.err = [msg |-> "Protocol version mismatched",
                                        expected |-> 1,
                                        got |-> cwritten[j].msg.version]
                 /\ "val" \notin DOMAIN cread[i].res

\* A DataChannelHello of version 251, sent after another message that was
\* read, has been read and refused.
C1_Witness ==
    /\ Len(cread) = 2
    /\ ReadsHello(2, 2)
    /\ cwritten[2].msg = Hello("DataChannelHello", 251, DigestToken)
    /\ cread[1].res.status = "ok"
    /\ cread[2].res.status = "err"

\* The PACKET_LEN entry of a message type.
TableEntry(type) ==
    CASE type = "Hello" -> PACKET_LEN.hello
      [] type = "Auth" -> PACKET_LEN.auth
      [] type = "Ack" -> PACKET_LEN.ack
      [] type = "ControlChannelCmd" -> PACKET_LEN.c_cmd
      [] type = "DataChannelCmd" -> PACKET_LEN.d_cmd

\* C5: every message of a fixed-shape type is as long, encoded, as the
\* PACKET_LEN entry of its type, which comes from one sample.
C5_EncodedLength ==
    \A j \in 1..Len(cwritten) :
        cwritten[j].kind = "msg" =>
            Len(cwritten[j].bytes) = TableEntry(cwritten[j].msg.type)

\* A Hello that is not the sample (the other variant, the version byte 251,
\* another digest) and an Ack that is not the sample have been written.
C5_Witness ==
    /\ Len(cwritten) = 2
    /\ cwritten[1].kind = "msg"
    /\ cwritten[1].msg = Hello("DataChannelHello", 251, DigestToken)
    /\ cwritten[2].kind = "msg"
    /\ cwritten[2].msg = Ack("AuthFailed")

\* The PACKET_LEN entry a reader reads.
ReaderLen(reader) ==
    CASE reader = "read_hello" -> PACKET_LEN.hello
      [] reader = "read_auth" -> PACKET_LEN.auth
      [] reader = "read_ack" -> PACKET_LEN.ack
      [] reader = "read_control_cmd" -> PACKET_LEN.c_cmd
      [] reader = "read_data_cmd" -> PACKET_LEN.d_cmd

ReaderType(reader) ==
    CASE reader = "read_hello" -> "Hello"
      [] reader = "read_auth" -> "Auth"
      [] reader = "read_ack" -> "Ack"
      [] reader = "read_control_cmd" -> "ControlChannelCmd"
      [] reader = "read_data_cmd" -> "DataChannelCmd"

ReadFailures ==
    {"Failed to read hello", "Failed to read auth", "Failed to read ack",
     "Failed to read cmd"}

\* C10: a reader that got its bytes took exactly its type's precomputed
\* number of them, whether it returned a message or failed to decode or
\* refused the version; a reader the stream ended on returned no message;
\* the stream left is what was written less what the reads took; and a
\* reader of the type of the message it starts on returns that message (a
\* Hello of another version: the version error) and takes that message's
\* bytes alone.
C10_FixedReads ==
    /\ \A i \in 1..Len(cread) :
          IF cread[i].res.status = "err" /\ cread[i].res.err.msg \in ReadFailures
          THEN /\ "val" \notin DOMAIN cread[i].res
               /\ cread[i].res.used < ReaderLen(cread[i].reader)
               /\ cclosed
          ELSE cread[i].res.used = ReaderLen(cread[i].reader)
    /\ cwire = Drop(CtrlStream(Len(cwritten)), CtrlUsed(Len(cread)))
    /\ \A i \in 1..Len(cread), j \in 1..Len(cwritten) :
          ( /\ CtrlAligned(i, j)
            /\ cwritten[j].kind = "msg"
            /\ cwritten[j].msg.type = ReaderType(cread[i].reader) )
          => /\ cread[i].res.used = Len(cwritten[j].bytes)
             /\ IF cread[i].res.status = "ok"
                THEN cread[i].res.val = cwritten[j].msg
                ELSE /\ cwritten[j].msg.type = "Hello"
                     /\ cwritten[j].msg.version # 1
                     /\ cread[i].res.err.msg = "Protocol version mismatched"

\* An Auth was read, then a Hello of version 0 was refused, and the bytes
\* of both are gone from the stream and no others.
C10_Witness ==
    /\ Len(cwritten) = 2
    /\ Len(cread) = 2
    /\ cwritten[1].kind = "msg"
    /\ cwritten[1].msg.type = "Auth"
    /\ cread[1].reader = "read_auth"
    /\ cread[1].res.status = "ok"
    /\ ReadsHello(2, 2)
    /\ cread[2].res.status = "err"
    /\ cread[2].res.used = 34
    /\ cwire = <<>>

----------------------------------------------------------------------------
(* Properties of the UDP data channel (SpecUdp). *)

\* The bytes the first k reads took.
RECURSIVE UdpUsed(_)
UdpUsed(k) == IF k = 0 THEN 0 ELSE drcvd[k].used + UdpUsed(k - 1)

\* The k-th read started where the j-th frame starts: it reads that frame back.
ReadsBack(k, j) ==
    /\ k \in 1..Len(drcvd)
    /\ j \in 1..Len(dsent)
    /\ UdpUsed(k - 1) = dframes[j].start

\* An address the encoding carries whole: IPv4, or IPv6 with flowinfo and
\* scope id 0.
Carried(a) == a.fam = "V4" \/ (a.flowinfo = 0 /\ a.scope_id = 0)

\* The address as the encoding carries it.
Unscoped(a) == IF a.fam = "V4" THEN a ELSE [a EXCEPT !.flowinfo = 0, !.scope_id = 0]

\* C2 as claimed: every UdpTraffic written and read back comes back with
\* the same from and the same payload.
C2_Claimed ==
    \A k \in 1..Len(drcvd), j \in 1..Len(dsent) :
        ReadsBack(k, j) => drcvd[k].val = dsent[j]

\* C2 amended: every UdpTraffic of at most 65535 payload bytes, written and
\* read back, comes back with the same payload and the same from address and
\* port; an IPv4 from comes back equal, an IPv6 from with flowinfo 0 and
\* scope id 0, which the header does not carry.
C2_RoundTrip ==
    \A k \in 1..Len(drcvd), j \in 1..Len(dsent) :
        (ReadsBack(k, j) /\ RLen(dsent[j].data) <= 65535)
        => /\ drcvd[k].val.data = dsent[j].data
           /\ drcvd[k].val.from = Unscoped(dsent[j].from)
           /\ Carried(dsent[j].from) => drcvd[k].val = dsent[j]

\* The longest payload, written after an IPv6 frame, has been read back.
C2_Witness ==
    /\ Len(drcvd) = 2
    /\ ReadsBack(2, 2)
    /\ dsent[1].from = Addr6
    /\ RLen(dsent[2].data) = 65535
    /\ drcvd[2].val = dsent[2]

\* The header the j-th write put on the stream after the prefix, decoded.
WrittenHeader(j) == DecodeUdpHeader(dframes[j].hdr_bytes, 1)

\* The j-th frame is laid out as the format says: the prefix is the length
\* of the encoded header, the header's len is the number of payload bytes
\* written, and the frame is 1 + header_len + len bytes.
FrameLaidOut(j) ==
    /\ WrittenHeader(j).ok
    /\ WrittenHeader(j).next = dframes[j].prefix + 1
    /\ dframes[j].hdr_bytes = EncodeUdpHeader(WrittenHeader(j).val)
    /\ WrittenHeader(j).val.len = RLen(dsent[j].data)
    /\ dframes[j].size = 1 + dframes[j].prefix + WrittenHeader(j).val.len

\* The k-th read recovered the k-th frame and took its bytes alone.
FrameRecovered(k) ==
    /\ k <= Len(dsent)
    /\ UdpUsed(k - 1) = dframes[k].start
    /\ drcvd[k].used = dframes[k].size
    /\ drcvd[k].val.data = dsent[k].data
    /\ drcvd[k].val.from = Unscoped(dsent[k].from)

\* The reader failed, if at all, at the end of the stream between frames,
\* every frame read and no byte taken.
FailedAtEnd ==
    dreader = "failed" =>
        (dclosed /\ dfail.used = 0 /\ dwire = <<>> /\ Len(drcvd) = Len(dsent))

\* The frames were written back to back: no write call ended inside its
\* frame.
BackToBack == dtorn = 0

\* No payload, of a frame written or being written, is beyond what len counts.
PayloadsFit ==
    /\ \A j \in 1..Len(dsent) : RLen(dsent[j].data) <= 65535
    /\ dwriting # NoWrite => RLen(dwriting.t.data) <= 65535

\* C6 as claimed: of frames written back to back, every frame is laid out
\* as the format says, and the reader recovers the frames written, in order,
\* each from its own bytes.
C6_Claimed ==
    BackToBack =>
        /\ \A j \in 1..Len(dsent) : FrameLaidOut(j)
        /\ \A k \in 1..Len(drcvd) : FrameRecovered(k) /\ drcvd[k].val = dsent[k]
        /\ FailedAtEnd

\* C6 amended: of frames written back to back, every payload of at most
\* 65535 bytes, every frame is laid out as the format says, and the reader
\* recovers the frames written, in order, each from its own bytes: the same
\* payload, and the same from but for an IPv6 address's flowinfo and scope
\* id, which come back 0.
C6_FrameBoundaries ==
    (BackToBack /\ PayloadsFit)
    => /\ \A j \in 1..Len(dsent) : FrameLaidOut(j)
       /\ \A k \in 1..Len(drcvd) : FrameRecovered(k)
       /\ FailedAtEnd

\* An IPv4 frame and an IPv6 frame, written back to back before either was
\* read, have both been read.
C6_Witness ==
    /\ Len(dsent) = 2
    /\ Len(drcvd) = 2
    /\ dsent[1].from.fam = "V4"
    /\ dsent[2].from.fam = "V6"
    /\ RLen(dsent[1].data) = 251
    /\ RLen(dsent[2].data) = 4
    /\ drcvd[1].used = dframes[1].size
    /\ dframes[2].start = dframes[1].size
    /\ dtorn = 0
    /\ dwire = <<>>

\* The bytes of the len field in the header the j-th write encoded: those
\* after the from address.
LenField(j) ==
    SubSeq(dframes[j].hdr_bytes, DecodeSocketAddr(dframes[j].hdr_bytes, 1).next,
           Len(dframes[j].hdr_bytes))

\* C9 as claimed: the len field of the encoded header is two bytes, the most
\* significant first, for every payload length from 0 to 65535.
C9_Claimed ==
    \A j \in 1..Len(dsent) :
        RLen(dsent[j].data) <= 65535 =>
            LenField(j) = <<RLen(dsent[j].data) \div 256, RLen(dsent[j].data) % 256>>

\* C9 amended: the len field of the encoded header is a variable-length
\* unsigned 16-bit integer: one byte, the length itself, for a payload of 0
\* to 250 bytes; for 251 to 65535 bytes three bytes, 0xFB and then the
\* length's two bytes, the least significant first.
C9_LenField ==
    \A j \in 1..Len(dsent) :
        RLen(dsent[j].data) <= 65535 =>
            LenField(j) = IF RLen(dsent[j].data) <= 250
                          THEN <<RLen(dsent[j].data)>>
                          ELSE <<251, RLen(dsent[j].data) % 256,
                                 RLen(dsent[j].data) \div 256>>

\* Frames with payloads of 257 and of 65535 bytes have been written.
C9_Witness ==
    /\ Len(dsent) = 2
    /\ RLen(dsent[1].data) = 257
    /\ LenField(1) = <<251, 1, 1>>
    /\ RLen(dsent[2].data) = 65535
    /\ LenField(2) = <<251, 255, 255>>

----------------------------------------------------------------------------
(* Properties of the retry loop (SpecRetry). *)

\* C3: the step in which the shutdown signal is received ends the call with
\* the "shutdown" error; once the call has ended the operation is not called
\* or polled again and the result stands; and with a signal waiting in the
\* channel, during an attempt as during a backoff sleep, no poll moves the
\* retry on to another sleep or attempt: the poll ends the call.
C3_Shutdown ==
    [][ /\ (rsig # "taken" /\ rsig' = "taken")
            => (rphase' = "done" /\ rresult' = ResultErr("shutdown"))
        /\ rphase = "done"
            => UNCHANGED <<rphase, rio, rcalls, rsleeps, rlog, rresult>>
        /\ (RecvReady(rsig) /\ <<rphase, rcalls, rsleeps, rlog>>' # <<rphase, rcalls, rsleeps, rlog>>)
            => rphase' = "done"
      ]_vars

\* The signal was received during the second attempt, after a backoff
\* sleep, and the call ended with "shutdown".
C3_Witness ==
    /\ rsig = "taken"
    /\ rlog = <<"IoError">>
    /\ rcalls = 2
    /\ rtimer
    /\ rphase = "done"
    /\ rresult = ResultErr("shutdown")

Transients == {i \in 1..Len(rlog) : AttemptOutcome(rlog[i]) = "Transient"}

\* C4: an attempt that ended with a permanent error is the last one, and the
\* call has ended with its error, no sleep started and no call of the
\* operation made after it; every attempt followed by another ended with a
\* transient error, and there are no more sleeps than transient errors, and
\* one call of the operation for each sleep, after the first.
C4_PermanentEnds ==
    /\ \A i \in 1..Len(rlog) :
          /\ AttemptOutcome(rlog[i]) = "Permanent"
                => /\ i = Len(rlog)
                   /\ rphase = "done"
                   /\ rresult = ResultErr(rlog[i])
                   /\ rsleeps = i - 1
                   /\ rcalls = i
          /\ i < Len(rlog) => AttemptOutcome(rlog[i]) = "Transient"
    /\ rsleeps <= Cardinality(Transients)
    /\ rcalls = 1 + rsleeps

\* An attempt failed with an I/O error, the next met Ack::AuthFailed, and the
\* call ended with that error.
C4_Witness ==
    /\ rlog = <<"IoError", "AckAuthFailed">>
    /\ rphase = "done"
    /\ rresult = ResultErr("AckAuthFailed")
    /\ rsleeps = 1

----------------------------------------------------------------------------
(* Properties of the PROXY protocol v2 header (SpecProxy). *)

SameFamily == pconn.local.fam = pconn.remote.fam

Generated == pconn # NoConn /\ pheader # NoHeader

\* The 16-bit big-endian number at bytes 14-15 (counted from 0).
LengthField(header) == header[15] * 256 + header[16]

\* C7: the length field of every header generated is 0x000C for IPv4 and
\* 0x0024 for IPv6, the number of bytes after the 16-byte fixed part.
C7_LengthField ==
    (Generated /\ pheader.ok) =>
        /\ LengthField(pheader.header) = (IF pconn.remote.fam = "V4" THEN 12 ELSE 36)
        /\ LengthField(pheader.header) = Len(pheader.header) - 16
        /\ Len(pheader.header) = (IF pconn.remote.fam = "V4" THEN 28 ELSE 52)

\* The generator had the two addresses: they were passed to it, or read
\* from a stream that is connected.
AddressesRead == pconn.kind = "udp" \/ pconn.sock = "connected"

\* C8: header generation, for TCP and for UDP, given the source and the
\* destination address, fails and yields no header when they are of
\* different families, and succeeds when they are of the same.
C8_FamilyMismatch ==
    Generated =>
        /\ AddressesRead =>
              IF SameFamily
              THEN pheader.ok /\ pheader.header[14] \in
                      (IF pconn.kind = "tcp" THEN {17, 33} ELSE {18, 34})
              ELSE ~pheader.ok /\ "header" \notin DOMAIN pheader
        /\ \A is_tcp \in BOOLEAN :
              LET r == generate_proxy_protocol_v2_header_core(
                           pconn.local, pconn.remote, is_tcp)
              IN  IF SameFamily THEN r.ok ELSE ~r.ok /\ "header" \notin DOMAIN r

\* The UDP generator was given an IPv6 source and an IPv4 destination, and
\* failed.
C8_Witness ==
    /\ Generated
    /\ pconn.kind = "udp"
    /\ pconn.remote.fam = "V6"
    /\ pconn.local.fam = "V4"
    /\ ~pheader.ok
    /\ pheader.err = "IP version mismatch"

====
